---- MODULE Spec2Model ----
(***************************************************************************)
(* The ASP.NET ViewState (LOS) decoder of viewstate/parse.py as a state    *)
(* machine.  One decode call (parse_viewstate) is a run of steps: every    *)
(* step is the code that runs between two calls of Parser.parse, or        *)
(* between a call and the return of the value.  The recursion of the       *)
(* parser is the explicit `stack` of composite rules waiting for a nested  *)
(* value.                                                                  *)
(*                                                                         *)
(* The input bytes are not fixed in advance.  The cursor only moves        *)
(* forward, so the bytes a step examines are chosen when the step runs     *)
(* (`seen`), together with the choice whether the input ends after them.   *)
(* Every rule is a pure operator over a byte sequence `b`, written as the  *)
(* source writes it; a step applies it to the window it examines.          *)
(***************************************************************************)
EXTENDS Integers, Sequences, FiniteSets, TLC

VARIABLES
    pc,        \* "idle" | "parsing" | "returned" | "raised": the decode call
    profile,   \* the family of marker bytes the current input is drawn from
    pos,       \* number of input bytes consumed: b is input[pos:]
    calls,     \* number of calls of Parser.parse made by this decode call
    ctx,       \* the ParserContext object: type_table and string_table
    stack,     \* active composite rules, innermost last
    ret,       \* <<>>: a Parser.parse call is pending; <<v>>: v was returned
    result,    \* what parse_viewstate returned
    error,     \* the exception that ended the call
    remain,    \* len(remain) as parse_viewstate measured it, -1 before that
    seen,      \* the input bytes the last step examined
    op,        \* the parser class (or function) whose code ran in the last step
    refs       \* type-refs and indexed strings decoded so far by this call

vars == <<pc, profile, pos, calls, ctx, stack, ret, result, error, remain, seen, op, refs>>

(***************************************************************************)
(* Bounds of the exploration.                                              *)
(***************************************************************************)
\* bytes (header included) one decode call may examine before the input ends
MaxLen == 10
\* calls of Parser.parse one decode call may make before the input ends
MaxCalls == 4
\* bytes of one 7-bit encoded integer
MaxGroups == 2
\* length of the strings whose content is enumerated
MaxStr == 1

(***************************************************************************)
(* Python sequences and integers.                                          *)
(***************************************************************************)
\* b[i:]
Slice(b, i) == IF i >= Len(b) THEN <<>> ELSE SubSeq(b, i + 1, Len(b))

\* b[:n]
Take(b, n) == IF n >= Len(b) THEN b ELSE SubSeq(b, 1, n)

RECURSIVE Pow2(_)
Pow2(k) == IF k = 0 THEN 1 ELSE 2 * Pow2(k - 1)

\* x | y on non-negative integers
RECURSIVE BitOr(_, _)
BitOr(x, y) ==
    IF x = 0 THEN y
    ELSE IF y = 0 THEN x
    ELSE (IF x % 2 = 1 \/ y % 2 = 1 THEN 1 ELSE 0) + 2 * BitOr(x \div 2, y \div 2)

\* [x] * n
Repeat(x, n) == [i \in 1..n |-> x]

(***************************************************************************)
(* Python values.  Every value is a record [t, v]: t the Python type, v    *)
(* its content.  The str.format results keep the template's name and the   *)
(* formatted arguments.                                                    *)
(***************************************************************************)
PyNone == [t |-> "None", v |-> 0]
PyBool(x) == [t |-> "bool", v |-> x]
PyInt(n) == [t |-> "int", v |-> n]
PyStr(s) == [t |-> "str", v |-> s]
PyFmt(name, args) == [t |-> "fmt", v |-> <<name>> \o args]
PyTuple(s) == [t |-> "tuple", v |-> s]
PyList(s) == [t |-> "list", v |-> s]
PyDict(s) == [t |-> "dict", v |-> s]
PyFloat(raw) == [t |-> "float", v |-> raw]
PyDateTime(raw) == [t |-> "datetime", v |-> raw]

\* bytes.decode('utf-8', errors='replace') on bytes that are ASCII or can
\* start no UTF-8 sequence (0x80..0xC1, 0xF5..0xFF): each of the latter
\* becomes U+FFFD
Utf8Replace(bs) == [i \in 1..Len(bs) |-> IF bs[i] < 128 THEN bs[i] ELSE 65533]

(***************************************************************************)
(* Parser context.                                                         *)
(***************************************************************************)
\* before the first ParserContext() of the process
NoCtx == [type_table |-> <<>>, string_table |-> <<>>, live |-> FALSE]

\* a context that outlives the call that created it
ParserContext_shared ==
    IF ctx.live THEN ctx ELSE [type_table |-> <<>>, string_table |-> <<>>, live |-> TRUE]

ParserContext == [type_table |-> <<>>, string_table |-> <<>>, live |-> TRUE]

(***************************************************************************)
(* What a function returns: a value and the advanced cursor, or raises.    *)
(* eof marks an exception that was raised because the input ended; byte    *)
(* is the byte an "unknown/invalid marker" exception was raised for.       *)
(***************************************************************************)
Ok(val, rest, c) ==
    [exc |-> "", msg |-> "", byte |-> -1, eof |-> FALSE, call |-> FALSE,
     val |-> val, rest |-> rest, ctx |-> c]

Raise(exc, msg, byte, eof) ==
    [exc |-> exc, msg |-> msg, byte |-> byte, eof |-> eof, call |-> FALSE,
     val |-> PyNone, rest |-> <<>>, ctx |-> NoCtx]

\* the code reached a nested Parser.parse(b, ctx): frame is what the rule
\* keeps while the nested value is decoded, rest the cursor it passes
Call(frame, rest, c) ==
    [exc |-> "", msg |-> "", byte |-> -1, eof |-> FALSE, call |-> TRUE,
     val |-> frame, rest |-> rest, ctx |-> c]

VSE == "ViewStateException"

\* b[i] on a bytes object too short for it
IndexError == Raise("IndexError", "index out of range", -1, TRUE)

\* a context that stores an empty name for every type
add_type_blank(c, t) == [c EXCEPT !.type_table = Append(@, PyStr(<<>>))]

add_type(c, t) == [c EXCEPT !.type_table = Append(@, t)]

\* a lookup that wraps an index past the end around
get_type_wrap(c, idx) ==
    IF Len(c.type_table) = 0
    THEN Raise("IndexError", "list index out of range", -1, FALSE)
    ELSE Ok(c.type_table[(idx % Len(c.type_table)) + 1], <<>>, c)

\* self.type_table[idx]; idx is never negative here
get_type(c, idx) ==
    IF idx < Len(c.type_table)
    THEN Ok(c.type_table[idx + 1], <<>>, c)
    ELSE Raise("IndexError", "list index out of range", -1, FALSE)

add_string(c, s) == [c EXCEPT !.string_table = Append(@, s)]

get_string(c, idx) ==
    IF idx < Len(c.string_table)
    THEN Ok(c.string_table[idx + 1], <<>>, c)
    ELSE Raise("IndexError", "list index out of range", -1, FALSE)

(***************************************************************************)
(* Helper functions.                                                       *)
(***************************************************************************)
RECURSIVE read_7bit_loop(_, _, _, _)
read_7bit_loop(b, n, shift, i) ==
    IF i >= Len(b)
    THEN Raise(VSE, "Unexpected end of data while reading 7-bit encoded int", -1, TRUE)
    ELSE LET tmp == b[i + 1]
             n2 == BitOr(n, (tmp % 128) * Pow2(shift))
         IN  IF tmp < 128
             THEN Ok(n2, Slice(b, i + 1), NoCtx)
             ELSE read_7bit_loop(b, n2, shift + 7, i + 1)

read_7bit_encoded_int(b) == read_7bit_loop(b, 0, 0, 0)

\* int.from_bytes(b[:4], byteorder='little', signed=False)
read_int32(b) ==
    IF Len(b) < 4
    THEN Raise(VSE, "Not enough bytes for int32", -1, TRUE)
    ELSE Ok(b[1] + 256 * b[2] + 65536 * b[3] + 16777216 * b[4], Slice(b, 4), NoCtx)

\* the 8 bytes, least significant first: the value does not fit the
\* model's integers, so it is kept as its bytes
read_int64(b) ==
    IF Len(b) < 8
    THEN Raise(VSE, "Not enough bytes for int64", -1, TRUE)
    ELSE Ok(Take(b, 8), Slice(b, 8), NoCtx)

read_double(b) ==
    IF Len(b) < 8
    THEN Raise(VSE, "Not enough bytes for double", -1, TRUE)
    ELSE Ok(PyFloat(Take(b, 8)), Slice(b, 8), NoCtx)

read_float(b) ==
    IF Len(b) < 4
    THEN Raise(VSE, "Not enough bytes for float", -1, TRUE)
    ELSE Ok(PyFloat(Take(b, 4)), Slice(b, 4), NoCtx)

\* 3155378976000000000, most significant byte first: the first tick count
\* past datetime.max (9999-12-31 23:59:59.999999)
MaxTicksBE == <<\h2B, \hCA, \h28, \h75, \hF4, \h37, \h40, \h00>>

\* x >= y for two 8-byte numbers, most significant byte first
RECURSIVE GeBE(_, _, _)
GeBE(x, y, i) ==
    IF i > 8 THEN TRUE
    ELSE IF x[i] > y[i] THEN TRUE
    ELSE IF x[i] < y[i] THEN FALSE
    ELSE GeBE(x, y, i + 1)

\* datetime(1, 1, 1) + timedelta(microseconds=ticks // 10) raises
\* OverflowError past datetime.max
parse_dotnet_datetime(ticks) ==
    IF GeBE([i \in 1..8 |-> ticks[9 - i]], MaxTicksBE, 1)
    THEN Raise("OverflowError", "date value out of range", -1, FALSE)
    ELSE Ok(PyDateTime(ticks), <<>>, NoCtx)

COLORS == (0 :> "Black") @@ (1 :> "White") @@ (2 :> "Red") @@ (3 :> "Green") @@ (4 :> "Blue")

(***************************************************************************)
(* The registry ParserMeta builds: marker byte -> parser class.            *)
(***************************************************************************)
registry ==
    (\h01 :> "Noop") @@ (\h64 :> "NoneConst") @@ (\h65 :> "EmptyConst") @@
    (\h66 :> "ZeroConst") @@ (\h67 :> "TrueConst") @@ (\h68 :> "FalseConst") @@
    (\h02 :> "Integer") @@ (\h03 :> "ByteValue") @@ (\h04 :> "CharValue") @@
    (\h05 :> "StringValue") @@ (\h06 :> "DateTimeValue") @@ (\h07 :> "DoubleValue") @@
    (\h08 :> "FloatValue") @@ (\h09 :> "RGBA") @@ (\h0A :> "KnownColor") @@
    (\h0B :> "EnumValue") @@ (\h0C :> "ColorEmpty") @@ (\h0F :> "PairValue") @@
    (\h10 :> "TripletValue") @@ (\h14 :> "TypedArray") @@ (\h15 :> "StringArray") @@
    (\h16 :> "ListValue") @@ (\h17 :> "DictValue") @@ (\h18 :> "DictValue") @@
    (\h19 :> "TypeValue") @@ (\h1B :> "UnitValue") @@ (\h1C :> "UnitEmpty") @@
    (\h1E :> "IndexedString") @@ (\h1F :> "IndexedString") @@
    (\h28 :> "FormattedString") @@ (\h32 :> "BinaryFormatted") @@ (\h3C :> "SparseArray")

\* a registry that falls back to Noop
Registry_total(marker) == IF marker \in DOMAIN registry THEN registry[marker] ELSE "Noop"

\* Parser.registry[marker]
Registry(marker) == IF marker \in DOMAIN registry THEN registry[marker] ELSE "KeyError"

\* Parser.parse up to the call of parser_cls.parse: the class it selects
Parser_parse(b) ==
    IF Len(b) = 0
    THEN Raise(VSE, "No data to parse", -1, TRUE)
    ELSE LET marker == b[1]
             parser_cls == Registry(marker)
         IN  IF parser_cls = "KeyError"
             THEN Raise(VSE, "Unknown marker", marker, FALSE)
             ELSE Ok(parser_cls, b, NoCtx)

(***************************************************************************)
(* The rules that call no nested Parser.parse: each is the whole parse     *)
(* method, applied to the cursor b (marker included) and the context c.    *)
(***************************************************************************)
\* a Noop that leaves the marker in the cursor
Noop_parse_keep(b, c) == Ok(PyNone, b, c)

Noop_parse(b, c) == Ok(PyNone, Slice(b, 1), c)

const ==
    [NoneConst |-> PyNone, EmptyConst |-> PyStr(<<>>), ZeroConst |-> PyInt(0),
     TrueConst |-> PyBool(TRUE), FalseConst |-> PyBool(FALSE)]

Const_parse(cls, b, c) == Ok(const[cls], Slice(b, 1), c)

RECURSIVE Integer_loop(_, _, _, _, _)
Integer_loop(b, c, n, shift, i) ==
    IF i >= Len(b)
    THEN Raise(VSE, "Unexpected end of data while parsing integer", -1, TRUE)
    ELSE LET tmp == b[i + 1]
             n2 == BitOr(n, (tmp % 128) * Pow2(shift))
         IN  IF tmp < 128
             THEN Ok(PyInt(n2), Slice(b, i + 1), c)
             ELSE Integer_loop(b, c, n2, shift + 7, i + 1)

Integer_parse(b, c) ==
    IF Len(b) = 0 THEN IndexError
    ELSE IF b[1] # \h02 THEN Raise(VSE, "Invalid marker for Integer", b[1], FALSE)
    ELSE Integer_loop(Slice(b, 1), c, 0, 0, 0)

ByteValue_parse(b, c) ==
    IF Len(b) = 0 THEN IndexError
    ELSE IF b[1] # \h03 THEN Raise(VSE, "Invalid marker for Byte", b[1], FALSE)
    ELSE IF Len(b) < 2 THEN IndexError
    ELSE Ok(PyInt(b[2]), Slice(b, 2), c)

CharValue_parse(b, c) ==
    IF Len(b) = 0 THEN IndexError
    ELSE IF b[1] # \h04 THEN Raise(VSE, "Invalid marker for Char", b[1], FALSE)
    ELSE IF Len(b) < 2 THEN IndexError
    ELSE Ok(PyStr(<<b[2]>>), Slice(b, 2), c)

StringValue_parse(b, c) ==
    IF Len(b) = 0 THEN IndexError
    ELSE IF b[1] # \h05 THEN Raise(VSE, "Invalid marker for String", b[1], FALSE)
    ELSE LET r == read_7bit_encoded_int(Slice(b, 1))
         IN  IF r.exc # "" THEN r
             ELSE IF r.val = 0 THEN Ok(PyStr(<<>>), r.rest, c)
             ELSE IF Len(r.rest) < r.val
                  THEN Raise(VSE, "Not enough bytes for string", -1, TRUE)
             ELSE Ok(PyStr(Utf8Replace(Take(r.rest, r.val))), Slice(r.rest, r.val), c)

DateTimeValue_parse(b, c) ==
    IF Len(b) = 0 THEN IndexError
    ELSE IF b[1] # \h06 THEN Raise(VSE, "Invalid marker for DateTime", b[1], FALSE)
    ELSE LET r == read_int64(Slice(b, 1))
         IN  IF r.exc # "" THEN r
             ELSE LET dt == parse_dotnet_datetime(r.val)
                  IN  IF dt.exc # "" THEN dt ELSE Ok(dt.val, r.rest, c)

DoubleValue_parse(b, c) ==
    IF Len(b) = 0 THEN IndexError
    ELSE IF b[1] # \h07 THEN Raise(VSE, "Invalid marker for Double", b[1], FALSE)
    ELSE LET r == read_double(Slice(b, 1))
         IN  IF r.exc # "" THEN r ELSE Ok(r.val, r.rest, c)

FloatValue_parse(b, c) ==
    IF Len(b) = 0 THEN IndexError
    ELSE IF b[1] # \h08 THEN Raise(VSE, "Invalid marker for Float", b[1], FALSE)
    ELSE LET r == read_float(Slice(b, 1))
         IN  IF r.exc # "" THEN r ELSE Ok(r.val, r.rest, c)

RGBA_parse(b, c) ==
    IF Len(b) = 0 THEN IndexError
    ELSE IF b[1] # \h09 THEN Raise(VSE, "Invalid marker for RGBA", b[1], FALSE)
    ELSE LET rd == read_int32(Slice(b, 1))
         IN  IF rd.exc # "" THEN rd
             ELSE LET val == rd.val
                      a == (val \div 16777216) % 256
                      r == (val \div 65536) % 256
                      g == (val \div 256) % 256
                      blue == val % 256
                  IN  Ok(PyFmt("RGBA", <<r, g, blue, a>>), rd.rest, c)

KnownColor_parse(b, c) ==
    IF Len(b) = 0 THEN IndexError
    ELSE IF b[1] # \h0A THEN Raise(VSE, "Invalid marker for KnownColor", b[1], FALSE)
    ELSE LET r == read_7bit_encoded_int(Slice(b, 1))
         IN  IF r.exc # "" THEN r
             ELSE LET color == IF r.val \in DOMAIN COLORS THEN COLORS[r.val] ELSE "Unknown"
                  IN  Ok(PyFmt("KnownColor", <<color>>), r.rest, c)

ColorEmpty_parse(b, c) ==
    IF Len(b) = 0 THEN IndexError
    ELSE IF b[1] # \h0C THEN Raise(VSE, "Invalid marker for Color.Empty", b[1], FALSE)
    ELSE Ok(PyFmt("Color.Empty", <<>>), Slice(b, 1), c)

TypeValue_parse(b, c) ==
    IF Len(b) = 0 THEN IndexError
    ELSE IF b[1] # \h19 THEN Raise(VSE, "Invalid marker for Type", b[1], FALSE)
    ELSE LET b1 == Slice(b, 1)
         IN  IF Len(b1) = 0 THEN IndexError
             ELSE IF b1[1] = \h2B
             THEN LET r == read_7bit_encoded_int(Slice(b1, 1))
                  IN  IF r.exc # "" THEN r
                      ELSE LET type_ref == get_type(c, r.val)
                           IN  IF type_ref.exc = "IndexError"
                               THEN Raise(VSE, "Invalid type reference index", -1, FALSE)
                               ELSE Ok(type_ref.val, r.rest, c)
             ELSE LET s == StringValue_parse(b1, c)
                  IN  IF s.exc # "" THEN s
                      ELSE Ok(s.val, s.rest, add_type(c, s.val))

EnumValue_parse(b, c) ==
    IF Len(b) = 0 THEN IndexError
    ELSE IF b[1] # \h0B THEN Raise(VSE, "Invalid marker for Enum", b[1], FALSE)
    ELSE LET type_ref == TypeValue_parse(Slice(b, 1), c)
         IN  IF type_ref.exc # "" THEN type_ref
             ELSE LET enum_val == read_7bit_encoded_int(type_ref.rest)
                  IN  IF enum_val.exc # "" THEN [enum_val EXCEPT !.ctx = type_ref.ctx]
                      ELSE Ok(PyFmt("Enum", <<type_ref.val, enum_val.val>>),
                              enum_val.rest, type_ref.ctx)

UnitValue_parse(b, c) ==
    IF Len(b) = 0 THEN IndexError
    ELSE IF b[1] # \h1B THEN Raise(VSE, "Invalid marker for Unit", b[1], FALSE)
    ELSE LET dbl == read_double(Slice(b, 1))
         IN  IF dbl.exc # "" THEN dbl
             ELSE LET int_val == read_int32(dbl.rest)
                  IN  IF int_val.exc # "" THEN int_val
                      ELSE Ok(PyFmt("Unit", <<dbl.val, int_val.val>>), int_val.rest, c)

UnitEmpty_parse(b, c) ==
    IF Len(b) = 0 THEN IndexError
    ELSE IF b[1] # \h1C THEN Raise(VSE, "Invalid marker for Unit.Empty", b[1], FALSE)
    ELSE Ok(PyFmt("Unit", <<PyInt(0), 0>>), Slice(b, 1), c)

IndexedString_parse(b, c) ==
    IF Len(b) = 0 THEN IndexError
    ELSE LET token == b[1]
             b1 == Slice(b, 1)
         IN  IF token = \h1F
             THEN IF Len(b1) = 0
                  THEN Raise(VSE, "No data for IndexedString reference", -1, TRUE)
                  ELSE LET s == get_string(c, b1[1])
                       IN  IF s.exc = "IndexError"
                           THEN Raise(VSE, "Invalid string reference index", -1, FALSE)
                           ELSE Ok(s.val, Slice(b1, 1), c)
             ELSE LET s == StringValue_parse(b1, c)
                  IN  IF s.exc # "" THEN s
                      ELSE Ok(s.val, s.rest, add_string(c, s.val))

BinaryFormatted_parse(b, c) ==
    IF Len(b) = 0 THEN IndexError
    ELSE IF b[1] # \h32 THEN Raise(VSE, "Invalid marker for BinaryFormatted", b[1], FALSE)
    ELSE LET r == read_7bit_encoded_int(Slice(b, 1))
         IN  IF r.exc # "" THEN r
             ELSE IF r.val > Len(r.rest)
                  THEN Raise(VSE, "Not enough data for binary formatted object", -1, TRUE)
             ELSE Ok(PyFmt("BinaryFormatted", <<Take(r.rest, r.val)>>),
                     Slice(r.rest, r.val), c)

\* for _ in range(n): s, b = StringValue.parse(b, ctx); arr.append(s)
RECURSIVE StringArray_loop(_, _, _, _)
StringArray_loop(b, c, n, arr) ==
    IF n = 0 THEN Ok(PyList(arr), b, c)
    ELSE LET s == StringValue_parse(b, c)
         IN  IF s.exc # "" THEN s
             ELSE StringArray_loop(s.rest, c, n - 1, Append(arr, s.val))

StringArray_parse(b, c) ==
    IF Len(b) = 0 THEN IndexError
    ELSE IF b[1] # \h15 THEN Raise(VSE, "Invalid marker for StringArray", b[1], FALSE)
    ELSE LET r == read_7bit_encoded_int(Slice(b, 1))
         IN  IF r.exc # "" THEN r
             ELSE StringArray_loop(r.rest, c, r.val, <<>>)

(***************************************************************************)
(* The inputs.  A window is the run of bytes one step examines; the sets   *)
(* below say which bytes are tried at each place of the grammar.           *)
(***************************************************************************)
SeqsOf(S, k) == [1..k -> S]

Min(x, y) == IF x <= y THEN x ELSE y

\* the bytes of a 7-bit encoded integer: with and without the high bit
VarintCont == {\h81}
VarintFinal == {0, 1, 2}

\* a 7-bit encoded integer, whole or cut short
VarintWins ==
    UNION {{c \o t : c \in SeqsOf(VarintCont, k),
                     t \in {<<>>} \cup (IF k < MaxGroups
                                        THEN {<<f>> : f \in VarintFinal} ELSE {})}
           : k \in 0..MaxGroups}

\* the whole ones
VarintWhole == {v \in VarintWins : read_7bit_encoded_int(v).exc = ""}

\* the length, the count and the first index of a sparse array
SparseWins ==
    VarintWins \cup {l \o n : l \in VarintWhole, n \in VarintWins}
               \cup {l \o n \o i : l \in VarintWhole, n \in VarintWhole, i \in VarintWins}

\* string and blob content; 0xFE is no valid UTF-8
StrBytes == {\h41, \h42, \hFE}
Pad == \h41

\* a length and that many bytes of content, whole or cut short; content
\* longer than MaxStr is all Pad
StrWins ==
    UNION {LET r == read_7bit_encoded_int(h)
           IN  IF r.exc # "" THEN {h}
               ELSE IF r.val <= MaxStr
               THEN {h \o ct : ct \in UNION {SeqsOf(StrBytes, j) : j \in 0..r.val}}
               ELSE {h \o Repeat(Pad, j) : j \in 0..Min(r.val, MaxLen)}
           : h \in VarintWins}

\* what stands where a string production (marker 0x05 included) is read
NotString == {\h64, \hFE}
StringValueWins == {<<>>} \cup {<<m>> : m \in NotString} \cup {<<\h05>> \o p : p \in StrWins}

\* what stands where the enum rule reads its type
NotType == {\h05, \hFE}
TypeValueWins ==
    {<<\h19>> \o p : p \in {<<\h2B>> \o v : v \in VarintWins} \cup StringValueWins}

\* the type-refs that are whole: the enum's integer follows only these
TypeValueWhole == {t \in TypeValueWins : ~TypeValue_parse(t, NoCtx).eof}

EnumValueWins ==
    {<<\h0B>> \o p : p \in {<<>>} \cup {<<m>> : m \in NotType} \cup TypeValueWins
                           \cup {t \o v : t \in TypeValueWhole, v \in VarintWins}}

IndexedStringWins ==
    {<<\h1F>> \o p : p \in {<<>>} \cup {<<i>> : i \in {0, 1, 2}}}
    \cup {<<\h1E>> \o p : p \in StringValueWins}

\* fixed-width payloads: k equal bytes
FixBytes == {\h00, \h41}
FixWins(k) == {Repeat(x, j) : x \in FixBytes, j \in 0..k}

ByteBytes == {\h00, \h7B, \hFF}
ByteWins == {<<>>} \cup {<<x>> : x \in ByteBytes}

\* the elements of a string array: whole strings, then one that may be cut
ElemWins == {<<\h05, 0>>, <<\h05, 1, \h41>>}
ElemTail == {<<>>, <<\h05>>, <<\h05, 1>>, <<\hFE>>}
RECURSIVE ElemSeqs(_)
ElemSeqs(k) ==
    IF k = 0 THEN {<<>>}
    ELSE {<<>>} \cup {e \o s : e \in ElemWins, s \in ElemSeqs(k - 1)}
StringArrayWins ==
    {<<\h15>> \o h \o s \o t : h \in VarintWins, s \in ElemSeqs(MaxLen \div 4), t \in ElemTail}

\* the marker families: all the value markers of one input come from one
Profiles ==
    { {\h01, \h64, \h65, \h66, \h67, \h68, \h02, \h03, \h04, \h05, \h0A, \h0C, \h1C, \h32, \hFE},
      {\h06, \h07, \h08, \h09, \h1B, \h15, \h2B},
      {\h0F, \h19, \h1E, \h1F, \h0B, \hFE},
      {\h10, \h64, \h65},
      {\h16, \h0F, \h64},
      {\h17, \h66, \h68},
      {\h17, \h16},
      {\h18, \h64},
      {\h28, \h64, \h65, \h19},
      {\h14, \h64, \h65},
      {\h3C, \h64, \h65, \h67} }

\* the whole input when it is shorter than two bytes, else its first two
HeaderWins == {<<>>, <<\hFF>>, <<\h00>>} \cup {<<x, y>> : x \in {\hFF, \h00}, y \in {\h01, \h02}}

\* the numbers of bytes tried after the root value
TrailerLens == {0, 1, 19, 20, 21, 31, 32, 33}

Front(w) == SubSeq(w, 1, Len(w) - 1)

(***************************************************************************)
(* State.                                                                  *)
(***************************************************************************)
NoResult == [value |-> PyNone, macEnabled |-> FALSE, raw |-> -1]
NoError == [exc |-> "", msg |-> "", byte |-> -1, eof |-> FALSE]
ErrorOf(r) == [exc |-> r.exc, msg |-> r.msg, byte |-> r.byte, eof |-> r.eof]

Init ==
    /\ pc = "idle"
    /\ profile = {}
    /\ pos = 0
    /\ calls = 0
    /\ ctx = NoCtx
    /\ stack = <<>>
    /\ ret = <<>>
    /\ result = NoResult
    /\ error = NoError
    /\ remain = -1
    /\ seen = <<>>
    /\ op = ""
    /\ refs = <<>>

\* the exception leaves parse_viewstate: every frame is unwound
Raised(w, cls, r, d) ==
    /\ pc' = "raised"
    /\ error' = ErrorOf(r)
    /\ ctx' = IF r.ctx = NoCtx THEN ctx ELSE r.ctx
    /\ stack' = <<>>
    /\ ret' = <<>>
    /\ calls' = calls + d
    /\ seen' = w
    /\ op' = cls
    /\ UNCHANGED <<profile, pos, result, remain, refs>>

\* the step ends in a state of the decode: the cursor is where r left it
Moved(w, cls, r, stk, rt, d, log) ==
    /\ pos' = pos + Len(w) - Len(r.rest)
    /\ ctx' = r.ctx
    /\ stack' = stk
    /\ ret' = rt
    /\ calls' = calls + d
    /\ seen' = w
    /\ op' = cls
    /\ refs' = refs \o log
    /\ UNCHANGED <<pc, profile, result, error, remain>>

\* w is what the step examined: the input ended after it, or the code did
\* not get as far on w without its last byte (rf)
Faithful(w, r, rf) ==
    /\ pos + Len(w) <= MaxLen
    /\ \/ r.exc # "" /\ r.eof
       \/ ~(r.exc # "" /\ r.eof) /\ Len(w) = 0
       \/ ~(r.exc # "" /\ r.eof) /\ Len(w) > 0 /\ rf.exc # "" /\ rf.eof

(***************************************************************************)
(* parse_viewstate: the header check and the fresh context.                *)
(***************************************************************************)
\* a header check that looks at the first byte only
parse_viewstate_head_first(b) ==
    IF Len(b) < 2 \/ b[1] # \hFF
    THEN Raise(VSE, "Not a valid ASP.NET 2.0 LOS stream", -1, FALSE)
    ELSE Ok(PyNone, Slice(b, 2), ParserContext)

parse_viewstate_head(b) ==
    IF Len(b) < 2 \/ b[1] # \hFF \/ b[2] # \h01
    THEN Raise(VSE, "Not a valid ASP.NET 2.0 LOS stream", -1, FALSE)
    ELSE Ok(PyNone, Slice(b, 2), ParserContext)

parse_viewstate ==
    /\ pc # "parsing"
    /\ \E w \in HeaderWins :
         LET r == parse_viewstate_head(w)
         IN  /\ seen' = w
             /\ op' = "parse_viewstate"
             /\ stack' = <<>>
             /\ ret' = <<>>
             /\ calls' = 0
             /\ refs' = <<>>
             /\ result' = NoResult
             /\ remain' = -1
             /\ IF r.exc # ""
                THEN /\ pc' = "raised"
                     /\ error' = ErrorOf(r)
                     /\ pos' = 0
                     /\ ctx' = NoCtx
                     /\ profile' = {}
                ELSE /\ pc' = "parsing"
                     /\ error' = NoError
                     /\ pos' = Len(w) - Len(r.rest)
                     /\ ctx' = r.ctx
                     /\ profile' \in Profiles

\* a classification that takes any tail of 20 bytes or more for a MAC
parse_viewstate_tail_atleast(value, k) ==
    IF k = 0 THEN Ok([value |-> value, macEnabled |-> FALSE], <<>>, NoCtx)
    ELSE IF k >= 20 THEN Ok([value |-> value, macEnabled |-> TRUE], <<>>, NoCtx)
    ELSE Raise(VSE, "Invalid trailing bytes length", k, FALSE)

\* the bytes left after the root value decide macEnabled
parse_viewstate_tail(value, k) ==
    IF k = 0 THEN Ok([value |-> value, macEnabled |-> FALSE], <<>>, NoCtx)
    ELSE IF k \in {20, 32} THEN Ok([value |-> value, macEnabled |-> TRUE], <<>>, NoCtx)
    ELSE Raise(VSE, "Invalid trailing bytes length", k, FALSE)

Classify ==
    /\ pc = "parsing"
    /\ stack = <<>>
    /\ ret # <<>>
    /\ \E k \in TrailerLens :
         LET r == parse_viewstate_tail(ret[1], k)
         IN  /\ remain' = k
             /\ seen' = <<>>
             /\ op' = "parse_viewstate"
             /\ ret' = <<>>
             /\ IF r.exc # ""
                THEN /\ pc' = "raised"
                     /\ error' = ErrorOf(r)
                     /\ result' = result
                ELSE /\ pc' = "returned"
                     /\ error' = error
                     /\ result' = [value |-> r.val.value, macEnabled |-> r.val.macEnabled,
                                   raw |-> pos - 2 + k]
             /\ UNCHANGED <<profile, pos, calls, ctx, stack, refs>>

(***************************************************************************)
(* The rules with nested values.  X_enter is the parse method up to its    *)
(* first Parser.parse; X_resume is the method from the return of a nested  *)
(* value v to the next Parser.parse or to its own return.  A frame keeps   *)
(* the method's local variables.                                           *)
(***************************************************************************)
Frame(rule, st, n, vals, arr, idx) ==
    [rule |-> rule, st |-> st, n |-> n, vals |-> vals, arr |-> arr, idx |-> idx,
     start |-> 0]

PairValue_enter(b, c) ==
    IF b[1] # \h0F THEN Raise(VSE, "Invalid marker for Pair", b[1], FALSE)
    ELSE Call(Frame("PairValue", 0, 0, <<>>, <<>>, 0), Slice(b, 1), c)

PairValue_resume(f, v, b, c) ==
    LET vals == Append(f.vals, v)
    IN  IF Len(vals) < 2
        THEN Call([f EXCEPT !.vals = vals], b, c)
        ELSE Ok(PyTuple(vals), b, c)

TripletValue_enter(b, c) ==
    IF b[1] # \h10 THEN Raise(VSE, "Invalid marker for Triplet", b[1], FALSE)
    ELSE Call(Frame("TripletValue", 0, 0, <<>>, <<>>, 0), Slice(b, 1), c)

TripletValue_resume(f, v, b, c) ==
    LET vals == Append(f.vals, v)
    IN  IF Len(vals) < 3
        THEN Call([f EXCEPT !.vals = vals], b, c)
        ELSE Ok(PyTuple(vals), b, c)

\* for _ in range(n): val, b = Parser.parse(b, ctx); lst.append(val)
ListLoop(f, b, c) ==
    IF f.n = 0 THEN Ok(PyList(f.arr), b, c) ELSE Call(f, b, c)

TypedArray_enter(b, c) ==
    IF b[1] # \h14 THEN Raise(VSE, "Invalid marker for TypedArray", b[1], FALSE)
    ELSE Call(Frame("TypedArray", 0, 0, <<>>, <<>>, 0), Slice(b, 1), c)

TypedArray_resume(f, v, b, c) ==
    IF f.st = 0
    THEN LET length == read_7bit_encoded_int(b)
         IN  IF length.exc # "" THEN length
             ELSE ListLoop([f EXCEPT !.st = 1, !.n = length.val], length.rest, c)
    ELSE ListLoop([f EXCEPT !.arr = Append(@, v), !.n = @ - 1], b, c)

ListValue_enter(b, c) ==
    IF b[1] # \h16 THEN Raise(VSE, "Invalid marker for List", b[1], FALSE)
    ELSE LET n == read_7bit_encoded_int(Slice(b, 1))
         IN  IF n.exc # "" THEN n
             ELSE ListLoop(Frame("ListValue", 0, n.val, <<>>, <<>>, 0), n.rest, c)

ListValue_resume(f, v, b, c) ==
    ListLoop([f EXCEPT !.arr = Append(@, v), !.n = @ - 1], b, c)

\* hash(v) raises TypeError for a list, a dict and a tuple that holds one
RECURSIVE Hashable(_)
Hashable(v) ==
    CASE v.t \in {"list", "dict"} -> FALSE
      [] v.t = "tuple" -> \A i \in 1..Len(v.v) : Hashable(v.v[i])
      [] OTHER -> TRUE

\* the numbers that compare equal across bool, int and float: of the
\* floats read here only 0.0 (all bytes zero) equals an int
IsNum(v) ==
    \/ v.t \in {"bool", "int"}
    \/ v.t = "float" /\ \A i \in 1..Len(v.v) : v.v[i] = 0
NumOf(v) ==
    CASE v.t = "bool" -> IF v.v THEN 1 ELSE 0
      [] v.t = "int" -> v.v
      [] OTHER -> 0

\* k1 == k2 for two dict keys
RECURSIVE PyEq(_, _)
PyEq(x, y) ==
    IF IsNum(x) /\ IsNum(y) THEN NumOf(x) = NumOf(y)
    ELSE IF x.t = "tuple" /\ y.t = "tuple"
    THEN Len(x.v) = Len(y.v) /\ \A i \in 1..Len(x.v) : PyEq(x.v[i], y.v[i])
    ELSE x.t = y.t /\ x.v = y.v

\* d[key] = value on the items of d in insertion order
DictSet(d, key, value) ==
    IF \E i \in 1..Len(d) : PyEq(d[i][1], key)
    THEN [i \in 1..Len(d) |-> IF PyEq(d[i][1], key) THEN <<d[i][1], value>> ELSE d[i]]
    ELSE Append(d, <<key, value>>)

DictLoop(f, b, c) ==
    IF f.n = 0 THEN Ok(PyDict(f.arr), b, c) ELSE Call(f, b, c)

DictValue_enter(b, c) ==
    LET n == read_7bit_encoded_int(Slice(b, 1))
    IN  IF n.exc # "" THEN n
        ELSE DictLoop(Frame("DictValue", 0, n.val, <<>>, <<>>, 0), n.rest, c)

DictValue_resume(f, v, b, c) ==
    IF f.st = 0
    THEN Call([f EXCEPT !.st = 1, !.vals = <<v>>], b, c)
    ELSE LET key == f.vals[1]
         IN  IF ~Hashable(key)
             THEN Raise("TypeError", "unhashable type", -1, FALSE)
             ELSE DictLoop([f EXCEPT !.st = 0, !.vals = <<>>, !.n = @ - 1,
                                     !.arr = DictSet(@, key, v)], b, c)

FormattedString_enter(b, c) ==
    IF b[1] # \h28 THEN Raise(VSE, "Invalid marker for FormattedString", b[1], FALSE)
    ELSE Call(Frame("FormattedString", 0, 0, <<>>, <<>>, 0), Slice(b, 1), c)

FormattedString_resume(f, v, b, c) ==
    LET s == StringValue_parse(b, c)
    IN  IF s.exc # "" THEN s
        ELSE IF v # PyNone
        THEN Ok(PyFmt("SerialisedObject", <<s.val>>), s.rest, c)
        ELSE Ok(PyNone, s.rest, c)

\* a loop that does not check the index
SparseLoop_unchecked(f, b, c) ==
    IF f.n = 0 THEN Ok(PyList(f.arr), b, c)
    ELSE LET idx == read_7bit_encoded_int(b)
         IN  IF idx.exc # "" THEN idx
             ELSE Call([f EXCEPT !.idx = idx.val], idx.rest, c)

\* for _ in range(num_non_null): the index, its check, the nested value
SparseLoop(f, b, c) ==
    IF f.n = 0 THEN Ok(PyList(f.arr), b, c)
    ELSE LET idx == read_7bit_encoded_int(b)
         IN  IF idx.exc # "" THEN idx
             ELSE IF idx.val < 0 \/ idx.val >= Len(f.arr)
             THEN Raise(VSE, "Invalid index in sparse array", -1, FALSE)
             ELSE Call([f EXCEPT !.idx = idx.val], idx.rest, c)

SparseArray_enter(b, c) ==
    IF b[1] # \h3C THEN Raise(VSE, "Invalid marker for SparseArray", b[1], FALSE)
    ELSE Call(Frame("SparseArray", 0, 0, <<>>, <<>>, 0), Slice(b, 1), c)

\* f.vals: the (index, value) entries stored so far, in stream order
SparseArray_resume(f, v, b, c) ==
    IF f.st = 0
    THEN LET length == read_7bit_encoded_int(b)
         IN  IF length.exc # "" THEN length
             ELSE LET num_non_null == read_7bit_encoded_int(length.rest)
                  IN  IF num_non_null.exc # "" THEN num_non_null
                      ELSE SparseLoop([f EXCEPT !.st = 1, !.n = num_non_null.val,
                                                !.arr = Repeat(PyNone, length.val)],
                                      num_non_null.rest, c)
    ELSE SparseLoop([f EXCEPT !.arr = [@ EXCEPT ![f.idx + 1] = v], !.n = @ - 1,
                              !.vals = Append(@, <<f.idx, v>>)], b, c)

(***************************************************************************)
(* Parser.parse: the dispatch and the selected rule.                       *)
(***************************************************************************)
\* what the step adds to refs: the type-ref or indexed string it decoded
TypeRefLog(b, c, val) ==
    LET b1 == Slice(b, 1)
    IN  IF b1[1] = \h2B
        THEN <<[kind |-> "type", form |-> "ref", val |-> val,
                idx |-> read_7bit_encoded_int(Slice(b1, 1)).val]>>
        ELSE <<[kind |-> "type", form |-> "new", val |-> val,
                idx |-> Len(c.type_table)]>>

RefLog(cls, w, r) ==
    CASE cls = "TypeValue" -> TypeRefLog(w, ctx, r.val)
      [] cls = "EnumValue" -> TypeRefLog(Slice(w, 1), ctx, r.val.v[2])
      [] cls = "IndexedString" ->
            IF w[1] = \h1F
            THEN <<[kind |-> "string", form |-> "ref", val |-> r.val, idx |-> w[2]]>>
            ELSE <<[kind |-> "string", form |-> "new", val |-> r.val,
                    idx |-> Len(ctx.string_table)]>>
      [] OTHER -> <<>>

\* a call of Parser.parse is pending
Pending == pc = "parsing" /\ ret = <<>>

\* a nested value was returned to the rule on top of the stack
Returned == pc = "parsing" /\ ret # <<>> /\ stack # <<>>

\* the markers tried at a dispatch
Alphabet == UNION Profiles

\* the markers that select cls
MarkersOf(cls) == {m \in Alphabet : Registry(m) = cls}

\* the windows of the rules
NoopWins == {<<m>> : m \in MarkersOf("Noop")}
IntegerWins == {<<\h02>> \o v : v \in VarintWins}
ByteValueWins == {<<\h03>> \o p : p \in ByteWins}
CharValueWins == {<<\h04>> \o p : p \in ByteWins}
DateTimeValueWins == {<<\h06>> \o p : p \in FixWins(8)}
DoubleValueWins == {<<\h07>> \o p : p \in FixWins(8)}
FloatValueWins == {<<\h08>> \o p : p \in FixWins(4)}
RGBAWins == {<<\h09>> \o p : p \in FixWins(4)}
KnownColorWins == {<<\h0A>> \o v : v \in VarintWins}
ColorEmptyWins == {<<\h0C>>}
UnitValueWins == {<<\h1B>> \o p : p \in FixWins(12)}
UnitEmptyWins == {<<\h1C>>}
BinaryFormattedWins == {<<\h32>> \o p : p \in StrWins}
PairValueWins == {<<\h0F>>}
TripletValueWins == {<<\h10>>}
TypedArrayWins == {<<\h14>>}
ListValueWins == {<<\h16>> \o v : v \in VarintWins}
DictValueWins == {<<m>> \o v : m \in {\h17, \h18}, v \in VarintWins}
FormattedStringWins == {<<\h28>>}
SparseArrayWins == {<<\h3C>>}

\* Parser.parse(b, ctx) selects cls and calls its parse method P, on one of
\* the windows W
Enter(cls, W, P(_, _)) ==
    /\ calls < MaxCalls
    /\ \E m \in profile : Registry(m) = cls
    /\ \E w \in W :
         /\ w[1] \in profile
         /\ Parser_parse(w).exc = ""
         /\ Parser_parse(w).val = cls
         /\ LET r == P(w, ctx)
                rf == IF Len(w) = 1 THEN Parser_parse(<<>>) ELSE P(Front(w), ctx)
            IN  /\ Faithful(w, r, rf)
                /\ IF r.exc # "" THEN Raised(w, cls, r, 1)
                   ELSE IF r.call
                   THEN Moved(w, cls, r, Append(stack, [r.val EXCEPT !.start = pos]),
                              <<>>, 1, <<>>)
                   ELSE Moved(w, cls, r, stack, <<r.val>>, 1, RefLog(cls, w, r))

\* the method P of the rule cls on top of the stack goes on after the
\* return of a nested value, on one of the windows W
Resume(cls, W, P(_, _, _, _)) ==
    /\ stack[Len(stack)].rule = cls
    /\ \E w \in W :
         LET f == stack[Len(stack)]
             r == P(f, ret[1], w, ctx)
             rf == IF Len(w) = 0 THEN r ELSE P(f, ret[1], Front(w), ctx)
         IN  /\ Faithful(w, r, rf)
             /\ IF r.exc # "" THEN Raised(w, cls, r, 0)
                ELSE IF r.call
                THEN Moved(w, cls, r, [stack EXCEPT ![Len(stack)] = r.val], <<>>, 0, <<>>)
                ELSE Moved(w, cls, r, Front(stack), <<r.val>>, 0, <<>>)

\* if not b: raise ViewStateException("No data to parse")
NoData ==
    /\ Pending
    /\ Raised(<<>>, "Parser", Parser_parse(<<>>), 1)

\* except KeyError: raise ViewStateException("Unknown marker ...")
UnknownMarker ==
    /\ Pending
    /\ calls < MaxCalls
    /\ pos + 1 <= MaxLen
    /\ \E m \in profile :
         /\ Parser_parse(<<m>>).exc # ""
         /\ Raised(<<m>>, "Parser", Parser_parse(<<m>>), 1)

Noop == Pending /\ Enter("Noop", NoopWins, Noop_parse)
Const ==
    /\ Pending
    /\ \E cls \in DOMAIN const :
         Enter(cls, {<<m>> : m \in MarkersOf(cls)}, LAMBDA b, c : Const_parse(cls, b, c))
Integer == Pending /\ Enter("Integer", IntegerWins, Integer_parse)
ByteValue == Pending /\ Enter("ByteValue", ByteValueWins, ByteValue_parse)
CharValue == Pending /\ Enter("CharValue", CharValueWins, CharValue_parse)
StringValue == Pending /\ Enter("StringValue", {<<\h05>> \o p : p \in StrWins}, StringValue_parse)
DateTimeValue ==
    Pending /\ Enter("DateTimeValue", DateTimeValueWins, DateTimeValue_parse)
DoubleValue ==
    Pending /\ Enter("DoubleValue", DoubleValueWins, DoubleValue_parse)
FloatValue ==
    Pending /\ Enter("FloatValue", FloatValueWins, FloatValue_parse)
RGBA == Pending /\ Enter("RGBA", RGBAWins, RGBA_parse)
KnownColor ==
    Pending /\ Enter("KnownColor", KnownColorWins, KnownColor_parse)
EnumValue == Pending /\ Enter("EnumValue", EnumValueWins, EnumValue_parse)
ColorEmpty == Pending /\ Enter("ColorEmpty", ColorEmptyWins, ColorEmpty_parse)
StringArray == Pending /\ Enter("StringArray", StringArrayWins, StringArray_parse)
TypeValue == Pending /\ Enter("TypeValue", TypeValueWins, TypeValue_parse)
UnitValue == Pending /\ Enter("UnitValue", UnitValueWins, UnitValue_parse)
UnitEmpty == Pending /\ Enter("UnitEmpty", UnitEmptyWins, UnitEmpty_parse)
IndexedString == Pending /\ Enter("IndexedString", IndexedStringWins, IndexedString_parse)
BinaryFormatted ==
    Pending /\ Enter("BinaryFormatted", BinaryFormattedWins, BinaryFormatted_parse)

PairValue ==
    \/ Pending /\ Enter("PairValue", PairValueWins, PairValue_enter)
    \/ Returned /\ Resume("PairValue", {<<>>}, PairValue_resume)

TripletValue ==
    \/ Pending /\ Enter("TripletValue", TripletValueWins, TripletValue_enter)
    \/ Returned /\ Resume("TripletValue", {<<>>}, TripletValue_resume)

TypedArray ==
    \/ Pending /\ Enter("TypedArray", TypedArrayWins, TypedArray_enter)
    \/ Returned /\ Resume("TypedArray", VarintWins, TypedArray_resume)

ListValue ==
    \/ Pending /\ Enter("ListValue", ListValueWins, ListValue_enter)
    \/ Returned /\ Resume("ListValue", {<<>>}, ListValue_resume)

DictValue ==
    \/ Pending /\ Enter("DictValue", DictValueWins, DictValue_enter)
    \/ Returned /\ Resume("DictValue", {<<>>}, DictValue_resume)

FormattedString ==
    \/ Pending /\ Enter("FormattedString", FormattedStringWins, FormattedString_enter)
    \/ Returned /\ Resume("FormattedString", StringValueWins, FormattedString_resume)

SparseArray ==
    \/ Pending /\ Enter("SparseArray", SparseArrayWins, SparseArray_enter)
    \/ Returned /\ Resume("SparseArray", SparseWins, SparseArray_resume)

\* the steps of a call of parse_viewstate after its header check
Decode ==
    \/ Classify
    \/ NoData
    \/ UnknownMarker
    \/ Noop
    \/ Const
    \/ Integer
    \/ ByteValue
    \/ CharValue
    \/ StringValue
    \/ DateTimeValue
    \/ DoubleValue
    \/ FloatValue
    \/ RGBA
    \/ KnownColor
    \/ EnumValue
    \/ ColorEmpty
    \/ PairValue
    \/ TripletValue
    \/ TypedArray
    \/ StringArray
    \/ ListValue
    \/ DictValue
    \/ TypeValue
    \/ UnitValue
    \/ UnitEmpty
    \/ IndexedString
    \/ FormattedString
    \/ BinaryFormatted
    \/ SparseArray

\* parse_viewstate is called any number of times, one call after the other
Next ==
    \/ parse_viewstate
    \/ Decode

Spec == Init /\ [][Next]_vars

\* the first call of parse_viewstate
FirstCall == pc = "idle" /\ parse_viewstate

\* one call of parse_viewstate
OneCall ==
    \/ FirstCall
    \/ Decode

\* the call is run to its end: nothing suspends it
LiveSpec == Init /\ [][OneCall]_vars /\ WF_vars(OneCall)

(***************************************************************************)
(* Properties.                                                             *)
(***************************************************************************)
Top == stack[Len(stack)]

\* C1: after a root value was decoded, parse_viewstate classifies by the
\* number of bytes left: 0 returns macEnabled = FALSE, 20 or 32 returns
\* macEnabled = TRUE, any other number raises "Invalid trailing bytes
\* length" and returns no result.
C1_TrailerClassified ==
    /\ remain = 0 => pc = "returned" /\ result.macEnabled = FALSE
    /\ remain \in {20, 32} => pc = "returned" /\ result.macEnabled = TRUE
    /\ (remain # -1 /\ remain \notin {0, 20, 32}) =>
          /\ pc = "raised"
          /\ error = [exc |-> VSE, msg |-> "Invalid trailing bytes length",
                      byte |-> remain, eof |-> FALSE]
          /\ result = NoResult
    /\ pc = "returned" => remain \in {0, 20, 32}

C1_Witness32 == pc = "returned" /\ remain = 32 /\ result.macEnabled

\* C2: when a type name or an indexed string was decoded in its new form
\* and later in the same call a reference form names the index the new
\* form received, both decode to the same string.
C2_BackReferenceResolves ==
    \A i, j \in 1..Len(refs) :
        (/\ i < j
         /\ refs[i].kind = refs[j].kind
         /\ refs[i].form = "new"
         /\ refs[j].form = "ref"
         /\ refs[j].idx = refs[i].idx) => refs[j].val = refs[i].val

C2_WitnessTypeThenRef ==
    \E i, j \in 1..Len(refs) :
        /\ i < j
        /\ refs[i].kind = "type" /\ refs[j].kind = "type"
        /\ refs[i].form = "new" /\ refs[j].form = "ref"
        /\ refs[j].idx = refs[i].idx
        /\ refs[i].val = PyStr(<<\h41>>)

\* C3 (as stated): whenever a call fails because the input ended, the
\* exception is a ViewStateException.
C3_TruncationIsViewStateException ==
    (pc = "raised" /\ error.eof) => error.exc = VSE

\* the index of the type reference the last step decoded, if it decoded one
TypeRefIdx ==
    IF op = "TypeValue" /\ Len(seen) >= 2 /\ seen[2] = \h2B
    THEN read_7bit_encoded_int(Slice(seen, 2))
    ELSE IF op = "EnumValue" /\ Len(seen) >= 3 /\ seen[2] = \h19 /\ seen[3] = \h2B
    THEN read_7bit_encoded_int(Slice(seen, 3))
    ELSE Raise("none", "", -1, FALSE)

\* C4: a type reference or string reference whose index is not below the
\* length of its table raises "Invalid type/string reference index", and
\* every value a reference produced is the table entry at its index.
C4_InvalidBackReference ==
    /\ (TypeRefIdx.exc = "" /\ TypeRefIdx.val >= Len(ctx.type_table)) =>
          /\ pc = "raised"
          /\ error = [exc |-> VSE, msg |-> "Invalid type reference index",
                      byte |-> -1, eof |-> FALSE]
    /\ (op = "IndexedString" /\ Len(seen) = 2 /\ seen[1] = \h1F
         /\ seen[2] >= Len(ctx.string_table)) =>
          /\ pc = "raised"
          /\ error = [exc |-> VSE, msg |-> "Invalid string reference index",
                      byte |-> -1, eof |-> FALSE]
    /\ \A i \in 1..Len(refs) :
          refs[i].form = "ref" =>
            LET table == IF refs[i].kind = "type" THEN ctx.type_table
                         ELSE ctx.string_table
            IN  refs[i].idx < Len(table) /\ refs[i].val = table[refs[i].idx + 1]

C4_WitnessIndexAtLength ==
    /\ pc = "raised"
    /\ error.msg = "Invalid type reference index"
    /\ Len(ctx.type_table) = 1
    /\ TypeRefIdx.exc = ""
    /\ TypeRefIdx.val = 1

\* C5 (as stated): the number of active nested decode calls stays below a
\* maximum.  The code states none; the only limit left is the number of
\* calls the input is long enough to make.
C5_NestingBounded == Len(stack) < MaxCalls

\* the value of the last of the entries that names position p, else None
LastEntry(entries, p) ==
    LET S == {k \in 1..Len(entries) : entries[k][1] = p}
    IN  IF S = {} THEN PyNone
        ELSE entries[CHOOSE k \in S : \A j \in S : j <= k][2]

\* C6: a step of the sparse-array rule.  When it returns, the array has
\* the declared length, every position holds the value of the last entry
\* that names it and every other position None; when it reads an index
\* that is not below the declared length it raises "Invalid index in
\* sparse array".
C6_Step ==
    (Returned /\ Top.rule = "SparseArray") =>
      LET f == Top
          l == read_7bit_encoded_int(seen')
          n == read_7bit_encoded_int(l.rest)
          L == IF f.st = 0 THEN l.val ELSE Len(f.arr)
          entries == IF f.st = 0 THEN <<>> ELSE Append(f.vals, <<f.idx, ret[1]>>)
          i == IF f.st = 0 THEN read_7bit_encoded_int(n.rest) ELSE l
          read == i.exc = "" /\ (f.st = 0 => l.exc = "" /\ n.exc = "")
      IN  /\ (pc' = "parsing" /\ ret' # <<>>) =>
                /\ ret'[1].t = "list"
                /\ Len(ret'[1].v) = L
                /\ \A p \in 0..(L - 1) : ret'[1].v[p + 1] = LastEntry(entries, p)
          /\ (read /\ i.val >= L) =>
                /\ pc' = "raised"
                /\ error' = [exc |-> VSE, msg |-> "Invalid index in sparse array",
                             byte |-> -1, eof |-> FALSE]
          /\ (pc' = "parsing" /\ ret' = <<>>) => read /\ stack'[Len(stack')].idx = i.val

C6_SparseArray == [][C6_Step]_vars

C6_WitnessLastWins ==
    /\ op = "SparseArray"
    /\ ret = <<PyList(<<PyNone, PyStr(<<>>)>>)>>
    /\ pos = 10

\* the markers a rule is registered for
RegisteredMarkers ==
    {\h01, \h02, \h03, \h04, \h05, \h06, \h07, \h08, \h09, \h0A, \h0B, \h0C,
     \h0F, \h10, \h14, \h15, \h16, \h17, \h18, \h19, \h1B, \h1C, \h1E, \h1F,
     \h28, \h32, \h3C, \h64, \h65, \h66, \h67, \h68}

\* C7 (amended): a call of the dispatcher Parser.parse, at the root or
\* nested, on a byte no rule is registered for raises "Unknown marker"
\* with that byte, runs no rule and returns no value.
C7_Step ==
    (pc = "parsing" /\ calls' = calls + 1 /\ Len(seen') >= 1
     /\ seen'[1] \notin RegisteredMarkers) =>
       /\ pc' = "raised"
       /\ error' = [exc |-> VSE, msg |-> "Unknown marker", byte |-> seen'[1],
                    eof |-> FALSE]
       /\ op' = "Parser"
       /\ ret' = <<>>
       /\ result' = NoResult
       /\ ctx' = ctx

C7_UnknownMarkerAtDispatch == [][C7_Step]_vars

C7_WitnessNested ==
    /\ pc = "raised"
    /\ error.msg = "Unknown marker"
    /\ error.byte = \hFE
    /\ calls >= 2

\* the byte that stood where the last step was to decode a value: the one
\* the dispatcher rejected, or the one after the marker of an enum
ValueByte ==
    IF op = "Parser" /\ Len(seen) = 1 THEN seen[1]
    ELSE IF op = "EnumValue" /\ Len(seen) >= 2 THEN seen[2]
    ELSE \h01

\* C7 (as stated): at every position where a value is to be decoded, the
\* type of an enum included, a byte no rule is registered for raises
\* "Unknown marker" with that byte.
C7_UnknownMarkerAnywhere ==
    ValueByte \notin RegisteredMarkers =>
       /\ pc = "raised"
       /\ error.msg = "Unknown marker"
       /\ error.byte = ValueByte

\* C8: a call of parse_viewstate on an input that is shorter than two
\* bytes or does not start with FF 01 raises "Not a valid ASP.NET 2.0 LOS
\* stream"; no ParserContext is created and Parser.parse is not called.
C8_Step ==
    (pc # "parsing" /\ op' = "parse_viewstate" /\ seen' # <<\hFF, \h01>>) =>
       /\ pc' = "raised"
       /\ error' = [exc |-> VSE, msg |-> "Not a valid ASP.NET 2.0 LOS stream",
                    byte |-> -1, eof |-> FALSE]
       /\ ctx' = NoCtx
       /\ calls' = 0
       /\ stack' = <<>>
       /\ ret' = <<>>
       /\ result' = NoResult

C8_HeaderValidation == [][C8_Step]_vars

C8_WitnessBadSecondByte ==
    /\ pc = "raised"
    /\ seen = <<\hFF, \h02>>
    /\ error.msg = "Not a valid ASP.NET 2.0 LOS stream"
    /\ ctx = NoCtx

\* t is s with one entry appended
Appended(s, t) == Len(t) = Len(s) + 1 /\ SubSeq(t, 1, Len(s)) = s

\* the step decoded a type-ref in its new form / an indexed string in its
\* new form
NewTypeStep ==
    \/ op' = "TypeValue" /\ Len(seen') >= 2 /\ seen'[2] # \h2B
    \/ op' = "EnumValue" /\ Len(seen') >= 3 /\ seen'[2] = \h19 /\ seen'[3] # \h2B
NewStringStep == op' = "IndexedString" /\ Len(seen') >= 1 /\ seen'[1] = \h1E

\* C9: a call starts with both tables empty; inside a call the type table
\* changes only by one entry appended when a new-form type-ref is decoded,
\* the string table only by one entry appended when a new-form indexed
\* string is decoded, and a new form that is decoded appends the string it
\* decoded.
C9_Step ==
    /\ (pc # "parsing" /\ pc' = "parsing") =>
          ctx'.type_table = <<>> /\ ctx'.string_table = <<>>
    /\ pc = "parsing" =>
          /\ \/ ctx'.type_table = ctx.type_table
             \/ Appended(ctx.type_table, ctx'.type_table) /\ NewTypeStep
          /\ \/ ctx'.string_table = ctx.string_table
             \/ Appended(ctx.string_table, ctx'.string_table) /\ NewStringStep
          /\ (NewTypeStep /\ pc' = "parsing") =>
                /\ Appended(ctx.type_table, ctx'.type_table)
                /\ ctx'.type_table[Len(ctx'.type_table)] =
                      IF op' = "TypeValue" THEN ret'[1] ELSE ret'[1].v[2]
          /\ (NewStringStep /\ pc' = "parsing") =>
                /\ Appended(ctx.string_table, ctx'.string_table)
                /\ ctx'.string_table[Len(ctx'.string_table)] = ret'[1]

C9_TableInvariant == [][C9_Step]_vars

C9_WitnessBothTables ==
    Len(ctx.type_table) = 1 /\ Len(ctx.string_table) = 1

\* C10: a rule that returns a value returns a cursor strictly behind the
\* one it was given, the cursor never moves backwards, and every call of
\* parse_viewstate returns or raises.
C10_Step ==
    (pc = "parsing" /\ pc' = "parsing") =>
       /\ pos' >= pos
       /\ ret' # <<>> => pos' > (IF ret = <<>> THEN pos ELSE Top.start)

C10_ProgressAndTermination ==
    /\ [][C10_Step]_vars
    /\ (pc = "parsing") ~> (pc \in {"returned", "raised"})

C10_WitnessListReturned ==
    /\ op = "ListValue"
    /\ ret # <<>>
    /\ ret[1].t = "list"
    /\ Len(ret[1].v) = 2

====
